---- MODULE Spec2Model ----
(***************************************************************************)
(* Model of diagram.py: main() reads eight inventory documents, builds one *)
(* directed graph (networkx DiGraph), detects unattached resources, and    *)
(* writes one topology diagram per VPC plus one for the orphan partition.  *)
(*                                                                         *)
(* Strings that the program splits or concatenates (ids, names, ARNs) are  *)
(* sequences of one-character strings, so that str.split, negative         *)
(* indexing and f"LB:{name}" are computed as the program computes them.    *)
(* A node's label keeps the first line of the program's label text (the    *)
(* second line, a CIDR block, tag or service name, is never compared).     *)
(***************************************************************************)
EXTENDS Integers, Sequences, FiniteSets, TLC

(* ---------------- bounds of the explored inventories ------------------- *)
MaxVpcs == 2
MaxSvcs == 2

SeqsUpTo(S, k) == UNION {[1..n -> S] : n \in 0..k}

RECURSIVE SubsetsUpTo(_, _)
SubsetsUpTo(S, k) ==
  IF k = 0 THEN {{}}
  ELSE LET P == SubsetsUpTo(S, k - 1) IN P \cup {T \cup {x} : T \in P, x \in S}

(* ---------------- Python string primitives ----------------------------- *)
Empty == <<>>

IndexOf(s, c) ==
  IF \E k \in 1..Len(s) : s[k] = c
  THEN CHOOSE k \in 1..Len(s) : s[k] = c /\ \A j \in 1..(k-1) : s[j] # c
  ELSE 0

RECURSIVE Split(_, _)
Split(s, c) ==
  LET k == IndexOf(s, c) IN
  IF k = 0 THEN <<s>>
  ELSE <<SubSeq(s, 1, k-1)>> \o Split(SubSeq(s, k+1, Len(s)), c)

PyLast(q) == q[Len(q)]
PySecondLast(q) == q[Len(q) - 1]

LBPrefix == <<"L", "B", ":">>
ClusterPrefix == <<"C", "L", "U", "S", "T", "E", "R", ":">>
SvcPrefix == <<"S", "V", "C", ":">>
NO_VPC == <<"N", "O", "_", "V", "P", "C">>
FileSuffix == <<"_topology.png">>

(* ---------------- the ids, names and ARNs drawn for the inputs --------- *)
v1 == <<"v", "1">>
v2 == <<"v", "2">>
s1 == <<"s", "1">>
s2 == <<"s", "2">>
d1 == <<"d", "1">>
d2 == <<"d", "2">>
NameA == <<"a">>
NameB == <<"b">>
ArnFull == <<"r", ":", "t", "/", "a", "/", "i">>
ArnOdd == <<"b", "/", "a", ":", "i">>
ArnFlat == <<"g">>
ClusterArnK == <<"c", "/", "k">>
ClusterArnM == <<"c", "/", "m">>
SvcNameS == <<"s">>
SvcNameW == <<"w">>

VpcIdSet == {v1, v2}
SubnetCandidates ==
  { [SubnetId |-> s1, VpcId |-> v1, hasTags |-> FALSE, Tags |-> <<>>],
    [SubnetId |-> s2, VpcId |-> v2, hasTags |-> TRUE, Tags |-> <<"web">>] }
UntaggedSubnet ==
  [SubnetId |-> s2, VpcId |-> v1, hasTags |-> TRUE, Tags |-> <<>>]
DbChoices ==
  { {},
    {[DBInstanceIdentifier |-> d1, Subnets |-> {}]},
    {[DBInstanceIdentifier |-> d1, Subnets |-> {s1}]},
    {[DBInstanceIdentifier |-> d1, Subnets |-> {s1, s2}]},
    {[DBInstanceIdentifier |-> d1, Subnets |-> {s1, s2}],
     [DBInstanceIdentifier |-> d2, Subnets |-> {Empty}]} }
LbChoices ==
  { {},
    {[LoadBalancerName |-> NameA, VpcId |-> v1]},
    {[LoadBalancerName |-> NameA, VpcId |-> v1],
     [LoadBalancerName |-> NameB, VpcId |-> v2]} }
TgChoices ==
  { <<>>,
    <<[TargetGroupArn |-> ArnFull, VpcId |-> v2]>>,
    <<[TargetGroupArn |-> ArnFull, VpcId |-> v2],
      [TargetGroupArn |-> ArnFull, VpcId |-> v1]>> }
Binding(n, t) == [loadBalancerName |-> n, targetGroupArn |-> t]
BindingChoices ==
  { {},
    {Binding(NameA, Empty)},
    {Binding(Empty, ArnFull)},
    {Binding(Empty, ArnOdd)},
    {Binding(Empty, ArnFlat)},
    {Binding(NameA, ArnFull), Binding(Empty, Empty)} }
SvcCandidates ==
  { [serviceName |-> SvcNameS, clusterArn |-> ClusterArnK, loadBalancers |-> B] :
      B \in BindingChoices }
  \cup { [serviceName |-> SvcNameW, clusterArn |-> ClusterArnK, loadBalancers |-> {}],
         [serviceName |-> SvcNameS, clusterArn |-> ClusterArnM, loadBalancers |-> {}] }

TopLevelKeys ==
  {"Vpcs", "Subnets", "Reservations", "DBInstances", "LoadBalancers",
   "services", "TargetGroups"}
ItemFields ==
  {"Instances", "VpcId", "SubnetId", "DBInstanceIdentifier",
   "LoadBalancerName", "serviceName", "TargetGroupArn"}

VARIABLES
  vpcs,            \* vpcs["Vpcs"]: sequence of VpcId
  subs,            \* subs["Subnets"]: set of subnet items
  ec2s,            \* ec2s["Reservations"]: sequence of len(r["Instances"])
  rds,             \* rds["DBInstances"]: set of database items
  lbs,             \* lbs["LoadBalancers"]: set of load-balancer items
  ecs_services,    \* ecs_services["services"]: set of service items
  tgs,             \* tgs["TargetGroups"]: sequence of target-group items
  missing,         \* the key or field the documents lack ("none": well-formed)
  tg_to_vpc,       \* dict TargetGroupArn -> VpcId
  used_lb_names,   \* set of names
  G,               \* the DiGraph: [nodes, attrs, edges]
  unattached,      \* the list built by the unattached pass (as a set)
  i,               \* position of the per-VPC drawing loop
  written,         \* the fig.savefig calls so far, in order
  pc,              \* position in main()
  err              \* the exception that ended the run ("" while none)

inputs == <<vpcs, subs, ec2s, rds, lbs, ecs_services, tgs, missing>>
vars == <<vpcs, subs, ec2s, rds, lbs, ecs_services, tgs, missing,
          tg_to_vpc, used_lb_names, G, unattached, i, written, pc, err>>

(* ---------------- networkx DiGraph ------------------------------------- *)
NoAttrs == [label |-> "", layer |-> -1]
EmptyGraph == [nodes |-> {}, attrs |-> <<>>, edges |-> {}]

AddNodes(g, S, a) ==
  [nodes |-> g.nodes \cup S,
   attrs |-> [n \in g.nodes \cup S |-> IF n \in S THEN a ELSE g.attrs[n]],
   edges |-> g.edges]

AddEdges(g, E) ==
  LET ns == g.nodes \cup {e[1] : e \in E} \cup {e[2] : e \in E} IN
  [nodes |-> ns,
   attrs |-> [n \in ns |-> IF n \in g.nodes THEN g.attrs[n] ELSE NoAttrs],
   edges |-> g.edges \cup E]

InDegree(g, n) == Cardinality({e \in g.edges : e[2] = n})

RECURSIVE Reach(_, _)
Reach(g, S) ==
  LET nxt == S \cup {e[2] : e \in {d \in g.edges : d[1] \in S}} IN
  IF nxt = S THEN S ELSE Reach(g, nxt)

(* ---------------- load-balancer name recovery -------------------------- *)
(* lines 46-53: the names one binding adds to used_lb_names *)
UsedNames(lb) ==
  IF lb.loadBalancerName # Empty THEN {lb.loadBalancerName}
  ELSE IF lb.targetGroupArn # Empty
       THEN LET parts == Split(PyLast(Split(lb.targetGroupArn, ":")), "/") IN
            IF Len(parts) >= 2 THEN {PySecondLast(parts)} ELSE {}
       ELSE {}

(* line 93: (lb.get("loadBalancerName") or tg_arn.split("/")[-2])          *)
(*          if tg_arn else None; Empty stands for None and for ""          *)
RaisesIndexError(lb) ==
  /\ lb.targetGroupArn # Empty
  /\ lb.loadBalancerName = Empty
  /\ Len(Split(lb.targetGroupArn, "/")) < 2

ServiceLbName(lb) ==
  IF lb.targetGroupArn # Empty
  THEN IF lb.loadBalancerName # Empty THEN lb.loadBalancerName
       ELSE PySecondLast(Split(lb.targetGroupArn, "/"))
  ELSE Empty

ClusterId(svc) == ClusterPrefix \o PyLast(Split(svc.clusterArn, "/"))
ServiceId(svc) == SvcPrefix \o svc.serviceName
LbId(name) == LBPrefix \o name

AlwaysContained_NoCluster == {"EC2", "RDS", "ECS Task"}

AlwaysContained == {"EC2", "RDS", "ECS Cluster", "ECS Task"}

Fail(e) ==
  /\ pc' = "error"
  /\ err' = e
  /\ UNCHANGED <<tg_to_vpc, used_lb_names, G, unattached, i, written>>

(* ---------------- the steps of main() ---------------------------------- *)
(* lines 35-53; target_to_lb (lines 35-39) is never read and is left out *)
BuildLookups ==
  /\ pc = "lookups"
  /\ UNCHANGED inputs
  /\ IF missing = "TargetGroupArn" /\ tgs # <<>>
     THEN Fail("KeyError:TargetGroupArn")
     ELSE /\ tg_to_vpc' =
               [a \in {tgs[k].TargetGroupArn : k \in 1..Len(tgs)} |->
                  LET last == CHOOSE k \in 1..Len(tgs) :
                                /\ tgs[k].TargetGroupArn = a
                                /\ \A j \in (k+1)..Len(tgs) :
                                      tgs[j].TargetGroupArn # a
                  IN tgs[last].VpcId]
          /\ used_lb_names' =
               UNION {UsedNames(lb) : lb \in
                        UNION {svc.loadBalancers : svc \in ecs_services}}
          /\ pc' = "vpcs"
          /\ UNCHANGED <<G, unattached, i, written, err>>

(* lines 57-59 *)
AddVpcs ==
  /\ pc = "vpcs"
  /\ UNCHANGED inputs
  /\ IF missing = "Vpcs" THEN Fail("KeyError:Vpcs")
     ELSE IF missing = "VpcId" /\ vpcs # <<>> THEN Fail("KeyError:VpcId")
     ELSE /\ G' = AddNodes(G, {vpcs[k] : k \in 1..Len(vpcs)},
                           [label |-> "VPC", layer |-> 2])
          /\ pc' = "subnets"
          /\ UNCHANGED <<tg_to_vpc, used_lb_names, unattached, i, written, err>>

(* lines 61-64 *)
AddSubnets ==
  /\ pc = "subnets"
  /\ UNCHANGED inputs
  /\ IF missing = "Subnets" THEN Fail("KeyError:Subnets")
     ELSE IF missing = "SubnetId" /\ subs # {} THEN Fail("KeyError:SubnetId")
     ELSE IF \E s \in subs : s.hasTags /\ s.Tags = <<>>
          THEN Fail("IndexError:Tags")
     ELSE /\ G' = AddEdges(AddNodes(G, {s.SubnetId : s \in subs},
                                    [label |-> "Subnet", layer |-> 1]),
                           {<<s.VpcId, s.SubnetId>> : s \in subs})
          /\ pc' = "dbs"
          /\ UNCHANGED <<tg_to_vpc, used_lb_names, unattached, i, written, err>>

(* lines 69-71 *)
DbEdges_Reversed(db) ==
  {<<db.DBInstanceIdentifier, sn>> : sn \in db.Subnets \ {Empty}}

DbEdges(db) ==
  {<<sn, db.DBInstanceIdentifier>> : sn \in db.Subnets \ {Empty}}

(* lines 66-71 *)
AddDatabases ==
  /\ pc = "dbs"
  /\ UNCHANGED inputs
  /\ IF missing = "DBInstances" THEN Fail("KeyError:DBInstances")
     ELSE IF missing = "DBInstanceIdentifier" /\ rds # {}
          THEN Fail("KeyError:DBInstanceIdentifier")
     ELSE /\ G' = AddEdges(AddNodes(G, {db.DBInstanceIdentifier : db \in rds},
                                    [label |-> "RDS", layer |-> 0]),
                           UNION {DbEdges(db) : db \in rds})
          /\ pc' = "lbs"
          /\ UNCHANGED <<tg_to_vpc, used_lb_names, unattached, i, written, err>>

(* lines 73-78 *)
AddLoadBalancers ==
  /\ pc = "lbs"
  /\ UNCHANGED inputs
  /\ IF missing = "LoadBalancers" THEN Fail("KeyError:LoadBalancers")
     ELSE IF missing = "LoadBalancerName" /\ lbs # {}
          THEN Fail("KeyError:LoadBalancerName")
     ELSE LET shown == {lb \in lbs : lb.LoadBalancerName \in used_lb_names} IN
          /\ G' = AddEdges(AddNodes(G, {LbId(lb.LoadBalancerName) : lb \in shown},
                                    [label |-> "Load Balancer", layer |-> 3]),
                           {<<lb.VpcId, LbId(lb.LoadBalancerName)>> : lb \in shown})
          /\ pc' = "services"
          /\ UNCHANGED <<tg_to_vpc, used_lb_names, unattached, i, written, err>>

(* lines 80-103.  The loop's add_node and add_edge calls commute: cluster, *)
(* service and load-balancer ids carry distinct prefixes, and the on-demand *)
(* load-balancer node gets the attributes line 77 gives it.                 *)
AddServices ==
  /\ pc = "services"
  /\ UNCHANGED inputs
  /\ IF missing = "services" THEN Fail("KeyError:services")
     ELSE IF missing = "serviceName" /\ ecs_services # {}
          THEN Fail("KeyError:serviceName")
     ELSE IF \E svc \in ecs_services : \E lb \in svc.loadBalancers :
                RaisesIndexError(lb)
          THEN Fail("IndexError:tg_arn")
     ELSE LET bindings == UNION {{<<svc, lb>> : lb \in svc.loadBalancers} :
                                    svc \in ecs_services}
              named == {p \in bindings : ServiceLbName(p[2]) # Empty}
              anchored == {p \in bindings :
                             /\ p[2].targetGroupArn # Empty
                             /\ p[2].targetGroupArn \in DOMAIN tg_to_vpc}
              g1 == AddNodes(G, {ClusterId(svc) : svc \in ecs_services},
                             [label |-> "ECS Cluster", layer |-> 3])
              g2 == AddNodes(g1, {ServiceId(svc) : svc \in ecs_services},
                             [label |-> "ECS Service", layer |-> 4])
              g3 == AddEdges(g2, {<<ClusterId(svc), ServiceId(svc)>> :
                                     svc \in ecs_services})
              g4 == AddNodes(g3, {LbId(ServiceLbName(p[2])) : p \in named}
                                   \ G.nodes,
                             [label |-> "Load Balancer", layer |-> 3])
              g5 == AddEdges(g4, {<<ServiceId(p[1]), LbId(ServiceLbName(p[2]))>> :
                                     p \in named})
              g6 == AddEdges(g5, {<<tg_to_vpc[p[2].targetGroupArn], ServiceId(p[1])>> :
                                     p \in anchored})
          IN
          /\ G' = g6
          /\ pc' = "unattached"
          /\ UNCHANGED <<tg_to_vpc, used_lb_names, unattached, i, written, err>>

(* lines 111-114 *)
AttachOrphans_NodeOnly(g, orphans) ==
  IF orphans # {}
  THEN AddNodes(g, {NO_VPC}, [label |-> "No VPC", layer |-> 0])
  ELSE g

AttachOrphans(g, orphans) ==
  IF orphans # {}
  THEN AddEdges(AddNodes(g, {NO_VPC}, [label |-> "No VPC", layer |-> 0]),
                {<<NO_VPC, n>> : n \in orphans})
  ELSE g

(* lines 105-114 *)
DetectUnattached ==
  /\ pc = "unattached"
  /\ UNCHANGED inputs
  /\ IF \E n \in G.nodes : InDegree(G, n) = 0 /\ G.attrs[n] = NoAttrs
     THEN Fail("KeyError:label")
     ELSE LET orphans == {n \in G.nodes :
                            /\ InDegree(G, n) = 0
                            /\ G.attrs[n].label \in AlwaysContained} IN
          /\ unattached' = orphans
          /\ G' = AttachOrphans(G, orphans)
          /\ i' = 1
          /\ pc' = IF vpcs = <<>> THEN "orphan" ELSE "draw"
          /\ UNCHANGED <<tg_to_vpc, used_lb_names, written, err>>

(* ---------------- draw_vpc_topology, lines 116-167 --------------------- *)
RECURSIVE Sum(_)
Sum(q) == IF q = <<>> THEN 0 ELSE Head(q) + Sum(Tail(q))

(* lines 139-151 *)
counts ==
  [VPC |-> Len(vpcs),
   Subnet |-> Cardinality(subs),
   EC2 |-> Sum(ec2s),
   RDS |-> Cardinality(rds),
   LB |-> Cardinality(used_lb_names),
   Unattached |-> Cardinality({n \in G.nodes :
                      /\ InDegree(G, n) = 0
                      /\ G.attrs[n].label \in AlwaysContained})]

(* lines 152-163 *)
legend_handles ==
  << <<"VPCs", counts.VPC>>, <<"Subnets", counts.Subnet>>,
     <<"EC2 instances", counts.EC2>>, <<"RDS instances", counts.RDS>>,
     <<"Load Balancers", counts.LB>>,
     <<"ECS Services", Cardinality(ecs_services)>> >>
  \o (IF counts.Unattached # 0
      THEN << <<"Unattached", counts.Unattached>> >> ELSE <<>>)

Descendants_Successors(g, v) == {e[2] : e \in {d \in g.edges : d[1] = v}} \ {v}

(* nx.descendants, lines 171 and 175 *)
Descendants(g, v) == Reach(g, {v}) \ {v}

(* lines 142 and 167: the lookups that can raise run before fig.savefig *)
draw_raises ==
  IF missing = "Reservations" THEN "KeyError:Reservations"
  ELSE IF missing = "Instances" /\ ec2s # <<>> THEN "KeyError:Instances"
  ELSE ""

(* the file fig.savefig writes, with what the figure shows *)
draw_vpc_topology(vpc_id, row_nodes) ==
  [file |-> vpc_id \o FileSuffix, nodes |-> row_nodes, legend |-> legend_handles]

(* lines 169-172, one iteration *)
DrawVpc ==
  /\ pc = "draw"
  /\ UNCHANGED inputs
  /\ IF draw_raises # "" THEN Fail(draw_raises)
     ELSE /\ written' = Append(written,
               draw_vpc_topology(vpcs[i], {vpcs[i]} \cup Descendants(G, vpcs[i])))
          /\ i' = i + 1
          /\ pc' = IF i = Len(vpcs) THEN "orphan" ELSE "draw"
          /\ UNCHANGED <<tg_to_vpc, used_lb_names, G, unattached, err>>

(* lines 174-176 *)
DrawOrphan ==
  /\ pc = "orphan"
  /\ UNCHANGED inputs
  /\ IF unattached = {}
     THEN /\ pc' = "done"
          /\ UNCHANGED <<tg_to_vpc, used_lb_names, G, unattached, i, written, err>>
     ELSE IF draw_raises # "" THEN Fail(draw_raises)
     ELSE /\ written' = Append(written,
               draw_vpc_topology(NO_VPC, {NO_VPC} \cup Descendants(G, NO_VPC)))
          /\ pc' = "done"
          /\ UNCHANGED <<tg_to_vpc, used_lb_names, G, unattached, i, err>>

(* ---------------- specifications --------------------------------------- *)
Start ==
  /\ tg_to_vpc = <<>>
  /\ used_lb_names = {}
  /\ G = EmptyGraph
  /\ unattached = {}
  /\ i = 0
  /\ written = <<>>
  /\ pc = "lookups"
  /\ err = ""

(* the documents are loaded (lines 26-33) and all keys are present *)
Init ==
  /\ vpcs \in SeqsUpTo(VpcIdSet, MaxVpcs)
  /\ subs \in SUBSET SubnetCandidates
  /\ ec2s = <<2, 1>>
  /\ rds \in DbChoices
  /\ lbs \in LbChoices
  /\ ecs_services \in SubsetsUpTo(SvcCandidates, MaxSvcs)
  /\ tgs \in TgChoices
  /\ missing = "none"
  /\ Start

Next ==
  \/ BuildLookups
  \/ AddVpcs
  \/ AddSubnets
  \/ AddDatabases
  \/ AddLoadBalancers
  \/ AddServices
  \/ DetectUnattached
  \/ DrawVpc
  \/ DrawOrphan

Spec == Init /\ [][Next]_vars

(* one key or field is absent from the documents; a document without its *)
(* top-level key holds no items                                          *)
InitMalformed ==
  /\ missing \in TopLevelKeys \cup ItemFields
  /\ vpcs \in (IF missing = "Vpcs" THEN {<<>>} ELSE SeqsUpTo(VpcIdSet, MaxVpcs))
  /\ subs \in (IF missing = "Subnets" THEN {{}}
               ELSE {{}, SubnetCandidates, {UntaggedSubnet}})
  /\ ec2s \in (IF missing = "Reservations" THEN {<<>>} ELSE {<<>>, <<2, 1>>})
  /\ rds \in (IF missing = "DBInstances" THEN {{}} ELSE DbChoices)
  /\ lbs \in (IF missing = "LoadBalancers" THEN {{}} ELSE LbChoices)
  /\ ecs_services \in (IF missing = "services" THEN {{}}
                       ELSE SubsetsUpTo(SvcCandidates, MaxSvcs))
  /\ tgs \in (IF missing = "TargetGroups" THEN {<<>>} ELSE TgChoices)
  /\ Start

SpecMalformed == InitMalformed /\ [][Next]_vars

(* ======================= the claims ==================================== *)
Built == pc \in {"draw", "orphan", "done"}
AfterServices == pc \in {"unattached", "draw", "orphan", "done"}
Preds(n) == {e[1] : e \in {d \in G.edges : d[2] = n}}
VpcIds == {vpcs[k] : k \in 1..Len(vpcs)}
SubnetIds == {s.SubnetId : s \in subs}
Files == {written[k].file : k \in 1..Len(written)}
AllBindings == UNION {{<<svc, lb>> : lb \in svc.loadBalancers} : svc \in ecs_services}
HasPrefix(n, p) == Len(n) >= Len(p) /\ SubSeq(n, 1, Len(p)) = p

(* C1: the unattached pass collects exactly the nodes labelled EC2, RDS,   *)
(* ECS Cluster or ECS Task whose in-degree was zero before the pass; when  *)
(* the set is empty there is no NO_VPC node and no NO_VPC diagram; when it *)
(* is non-empty NO_VPC exists and has an edge to every node of the set.    *)
C1_UnattachedPass ==
  /\ [][(pc = "unattached" /\ pc' # "error") =>
          unattached' = {n \in G.nodes :
                           /\ \A e \in G.edges : e[2] # n
                           /\ G.attrs[n].label \in
                                {"EC2", "RDS", "ECS Cluster", "ECS Task"}}]_vars
  /\ [](Built =>
          /\ unattached = {} =>
               /\ NO_VPC \notin G.nodes
               /\ (NO_VPC \o FileSuffix) \notin Files
          /\ unattached # {} =>
               /\ NO_VPC \in G.nodes
               /\ \A n \in unattached : <<NO_VPC, n>> \in G.edges)

C1_Witness ==
  /\ pc = "done"
  /\ unattached # {}
  /\ \E n \in G.nodes \ unattached : G.attrs[n].label = "RDS"
  /\ \A n \in unattached : <<NO_VPC, n>> \in G.edges

(* C2: a load balancer of the collection has an LB:<name> node in the      *)
(* returned graph exactly when some service binding names it, directly or  *)
(* through the name recovered from the binding's target-group ARN.         *)
NamedInBindings == UNION {UsedNames(p[2]) : p \in AllBindings}

C2_LbNodeIffNamed ==
  Built => \A lb \in lbs :
    LbId(lb.LoadBalancerName) \in G.nodes <=> lb.LoadBalancerName \in NamedInBindings

(* C3: a dangling reference (a subnet's container, a database's subnet, a  *)
(* binding's target group) never makes the build raise and contributes no  *)
(* node and no edge.                                                       *)
DanglingRefs ==
  ({s.VpcId : s \in subs} \ VpcIds)
  \cup ((UNION {db.Subnets : db \in rds} \ {Empty}) \ SubnetIds)

C3_DanglingSkipped ==
  /\ err # "KeyError:label"
  /\ Built => \A d \in DanglingRefs :
       /\ d \notin G.nodes
       /\ \A e \in G.edges : e[1] # d /\ e[2] # d

(* C4: every diagram's legend has an Unattached entry carrying the number  *)
(* of unattached nodes when there are any, and none otherwise.             *)
C4_LegendUnattached ==
  \A k \in 1..Len(written) :
    LET L == written[k].legend
        entries == {L[j] : j \in 1..Len(L)} IN
    /\ unattached # {} => <<"Unattached", Cardinality(unattached)>> \in entries
    /\ unattached = {} => \A x \in entries : x[1] # "Unattached"

(* C5 as stated: in the returned graph a database has exactly one inbound  *)
(* edge per listed valid subnet and, with an empty list, no inbound edge.  *)
ListedSubnets(db) == (db.Subnets \ {Empty}) \cap SubnetIds

C5_Original ==
  Built => \A db \in rds :
    /\ Preds(db.DBInstanceIdentifier) = ListedSubnets(db)
    /\ InDegree(G, db.DBInstanceIdentifier) = Cardinality(ListedSubnets(db))

(* C5 amended: in the returned graph the inbound edges of a database that  *)
(* come from subnets are exactly one per listed valid subnet; a database   *)
(* with an empty or missing list has no inbound edge from a subnet, and    *)
(* its only inbound edge is the one the unattached pass adds from NO_VPC.  *)
C5_Amended ==
  Built => \A db \in rds :
    /\ Preds(db.DBInstanceIdentifier) \ {NO_VPC} = ListedSubnets(db)
    /\ Cardinality(Preds(db.DBInstanceIdentifier) \ {NO_VPC})
         = Cardinality(db.Subnets \ {Empty})
    /\ NO_VPC \in Preds(db.DBInstanceIdentifier) <=> ListedSubnets(db) = {}

C5_Witness ==
  /\ pc = "done"
  /\ \E db \in rds : Cardinality(ListedSubnets(db)) = 2
                     /\ InDegree(G, db.DBInstanceIdentifier) = 2
  /\ \E db \in rds : db.Subnets = {Empty}
                     /\ Preds(db.DBInstanceIdentifier) = {NO_VPC}

(* C6: every node id of the returned graph is created by one construction  *)
(* step for one resource, and every edge endpoint is a created node.       *)
NumCreators(n) ==
  Cardinality({v \in VpcIds : v = n})
  + Cardinality({x \in SubnetIds : x = n})
  + Cardinality({db.DBInstanceIdentifier : db \in {d \in rds : d.DBInstanceIdentifier = n}})
  + Cardinality({x \in {lb.LoadBalancerName : lb \in lbs}
                         \cup {ServiceLbName(p[2]) : p \in AllBindings} :
                   x # Empty /\ LbId(x) = n /\ n \in G.nodes})
  + Cardinality({c \in {PyLast(Split(svc.clusterArn, "/")) : svc \in ecs_services} :
                   ClusterPrefix \o c = n})
  + Cardinality({x \in {<<svc.clusterArn, svc.serviceName>> : svc \in ecs_services} :
                   SvcPrefix \o x[2] = n})
  + (IF n = NO_VPC /\ unattached # {} THEN 1 ELSE 0)

C6_UniqueIds ==
  Built =>
    /\ \A n \in G.nodes : NumCreators(n) = 1
    /\ \A e \in G.edges : G.attrs[e[1]] # NoAttrs /\ G.attrs[e[2]] # NoAttrs

(* C7: a run on documents that lack an expected key or field never         *)
(* completes, and when it fails no diagram has been written.               *)
Malformed ==
  \/ missing \in TopLevelKeys
  \/ missing = "Instances" /\ ec2s # <<>>
  \/ missing = "VpcId" /\ vpcs # <<>>
  \/ missing = "SubnetId" /\ subs # {}
  \/ missing = "DBInstanceIdentifier" /\ rds # {}
  \/ missing = "LoadBalancerName" /\ lbs # {}
  \/ missing = "serviceName" /\ ecs_services # {}
  \/ missing = "TargetGroupArn" /\ tgs # <<>>

C7_MalformedFatal ==
  Malformed =>
    /\ pc # "done"
    /\ pc = "error" => written = <<>>

(* C8: the diagrams are written one at a time, first one per entry of the  *)
(* VPC collection in order, named <VpcId>_topology.png and showing the VPC *)
(* with everything reachable from it, then NO_VPC_topology.png (NO_VPC and *)
(* everything reachable from it) exactly when the unattached set is        *)
(* non-empty; a completed run has written all of them and nothing else.    *)
RECURSIVE Closure(_)
Closure(S) ==
  LET T == S \cup {n \in G.nodes : \E m \in S : <<m, n>> \in G.edges} IN
  IF T = S THEN S ELSE Closure(T)

C8_Diagrams ==
  /\ Len(written) <= Len(vpcs) + (IF unattached # {} THEN 1 ELSE 0)
  /\ \A k \in 1..Len(written) :
       IF k <= Len(vpcs)
       THEN /\ written[k].file = vpcs[k] \o <<"_topology.png">>
            /\ written[k].nodes = Closure({vpcs[k]})
       ELSE /\ written[k].file = <<"N", "O", "_", "V", "P", "C", "_topology.png">>
            /\ written[k].nodes = Closure({NO_VPC})
  /\ pc = "draw" => Len(written) = i - 1
  /\ pc = "done" => Len(written) = Len(vpcs) + (IF unattached # {} THEN 1 ELSE 0)

C8_Witness ==
  /\ pc = "done"
  /\ Len(written) = 3
  /\ written[1].file # written[2].file
  /\ Cardinality(written[1].nodes) >= 3
  /\ Cardinality(written[3].nodes) >= 3

(* C9: the service step resolves every binding's load-balancer name by the *)
(* rule of used-name detection: a binding that yields name n gets node     *)
(* LB:n and edge SVC:<service> -> LB:n, any other binding adds neither,    *)
(* the step does not fail, and the names of the load-balancer nodes that   *)
(* service edges target are exactly the used names.                        *)
C9_SameRule ==
  /\ err # "IndexError:tg_arn"
  /\ AfterServices =>
       /\ \A p \in AllBindings : \A n \in UsedNames(p[2]) :
            /\ LbId(n) \in G.nodes
            /\ <<ServiceId(p[1]), LbId(n)>> \in G.edges
       /\ {e[2] : e \in {d \in G.edges : HasPrefix(d[1], SvcPrefix)
                                         /\ HasPrefix(d[2], LBPrefix)}}
            = {LbId(n) : n \in used_lb_names}

(* C10: no construction step gives a CLUSTER:<name> node an inbound edge,  *)
(* so with a non-empty service collection every cluster node is unattached *)
(* and a child of NO_VPC, and a completed run has written the orphan       *)
(* diagram, also when the cluster's service is anchored to a VPC through a *)
(* known target group.                                                     *)
C10_ClustersOrphaned ==
  /\ \A e \in G.edges : HasPrefix(e[2], ClusterPrefix) => e[1] = NO_VPC
  /\ (Built /\ ecs_services # {}) =>
       /\ NO_VPC \in G.nodes
       /\ \A svc \in ecs_services :
            /\ ClusterId(svc) \in unattached
            /\ <<NO_VPC, ClusterId(svc)>> \in G.edges
  /\ (pc = "done" /\ ecs_services # {}) =>
       /\ written # <<>>
       /\ written[Len(written)].file = NO_VPC \o FileSuffix
       /\ \A svc \in ecs_services : ClusterId(svc) \in written[Len(written)].nodes

C10_Witness ==
  /\ pc = "done"
  /\ \E svc \in ecs_services :
       /\ \E v \in VpcIds : <<v, ServiceId(svc)>> \in G.edges
       /\ \E lb \in svc.loadBalancers : lb.targetGroupArn \in DOMAIN tg_to_vpc
       /\ ClusterId(svc) \in unattached
       /\ ClusterId(svc) \in written[Len(written)].nodes

====
